---------------------------- MODULE Spec2Model ----------------------------
(***************************************************************************)
(* Linkage Studio: planar linkages of joints (Point) and rigid bars (Link) *)
(* relaxed by a position-based constraint solver, driven by rotary motors  *)
(* and by a FABRIK inverse-kinematics chain solver.                        *)
(*                                                                         *)
(* Two programs are modelled: LinkageStudioPlus (src/linkage.py) and       *)
(* LinkageApp (src/newone.py).  Definitions of the second carry the        *)
(* prefix App_.                                                            *)
(*                                                                         *)
(* Conventions.                                                            *)
(*  - Python lists are sequences; joint k of the code (0-based) is         *)
(*    points[k+1] here, and every stored index (Link.a, Link.b,            *)
(*    motor_anchor, ik_chain, coupler_link_index) is shifted the same way. *)
(*  - Coordinates are the pixel coordinates of the code, kept as integers. *)
(*    A product is formed before the quotient that the code applies to it, *)
(*    so a float result that is integral is exact here; math.hypot is the  *)
(*    integer square root.  The bounded inputs are chosen on geometries    *)
(*    (axis-aligned and 3-4-5) where the results are integral.             *)
(*    Elsewhere a quotient is the floor of the exact one.                  *)
(*  - motor_speed is in degrees per second, as in the code, and motor_rps  *)
(*    is kept in 1/360 rotations per second, so that motor_speed / 360 is  *)
(*    exact.  motor_angle is counted in quarter turns (pi/2) and a frame's *)
(*    dt in twentieths of a second (0.05 s is the longest frame tick()     *)
(*    passes), so rps * 2*pi * dt is motor_rps * dt / 1800 quarter turns,  *)
(*    and cos and sin are exact.                                           *)
(***************************************************************************)
EXTENDS Integers, Sequences, FiniteSets, TLC

VARIABLES
    program,         \* which of the two programs the session runs
    points,          \* self.points : sequence of Point records
    links,           \* self.links  : sequence of Link records
    trace_points,    \* self.trace_points / self.trace : sequence of samples
    mode,            \* self.mode
    connect_sel,     \* LinkageStudioPlus.connect_sel
    temp_link,       \* LinkageApp.temp_link
    ik_active,       \* LinkageStudioPlus.ik_active
    ik_chain,        \* LinkageStudioPlus.ik_chain
    ik_target,       \* LinkageStudioPlus.ik_target (None or <<x, y>>)
    trace_enabled,   \* LinkageStudioPlus.trace_enabled
    solver_iters,    \* self.solver_iters
    motor_speed,     \* LinkageStudioPlus.motor_speed / LinkageApp.motor_rpm
    playing,         \* self.playing
    pc,              \* position inside the running frame handler
    call,            \* the last engine call: its name, arguments and result
    nops             \* number of operations performed so far

vars == <<program, points, links, trace_points, mode, connect_sel, temp_link, ik_active,
          ik_chain, ik_target, trace_enabled, solver_iters, motor_speed,
          playing, pc, call, nops>>

(***************************************************************************)
(* Bounds of the model                                                     *)
(***************************************************************************)
MaxJoints == 3
MaxOps == 1
MaxPathJoints == 4
MaxPathLinks == 3
MaxEditOps == 5
MaxFourBarOps == 2
MaxRunOps == 4
MaxStudioOps == 4

(***************************************************************************)
(* Values                                                                  *)
(***************************************************************************)
None == -1

\* ik_target before a target is set (None in the source; a target is <<x, y>>)
NoTarget == <<>>

\* LinkageApp.solver_iters = tk.IntVar(value=20); no control changes it
App_solver_iters == 20

\* LinkageStudioPlus.coupler_link_index = tk.IntVar(value=0): the first link
coupler_link_index == 1
\* LinkageStudioPlus.coupler_fraction = tk.DoubleVar(value=0.5), as a ratio
coupler_fraction == <<1, 2>>

\* tick_once: fabrik_chain_positions(.., tolerance=0.5, max_iters=10); between
\* integer positions a distance is <= 0.5 exactly when it is 0
tick_ik_tolerance == 0
tick_ik_max_iters == 10
\* tick_once: self.solve_constraints(iterations=8)
tick_settle_iterations == 8
\* tick_once: if len(self.trace_points) > 3000
TraceCap == 3000

\* LinkageStudioPlus.grid_size = tk.IntVar(value=16)
grid_size == 16
\* LinkageStudioPlus.near_snap_radius = tk.IntVar(value=14)
near_snap_radius == 14
\* find_point_near(self, x, y, radius=12)
pick_radius == 12
\* LinkageApp.find_point: <= 12**2
App_pick_radius == 12
\* on_left_click, "ik_target": fabrik_chain_positions(.., tolerance=0.5, max_iters=30)
click_ik_max_iters == 30

\* generate_4bar_from_sliders: while not self._grashof_ok(a,b,c,d) and attempt < 20
grashof_max_attempts == 20
\* generate_4bar_from_sliders: Ax, Ay = 180.0, 360.0
FourBarAx == 180
FourBarAy == 360
\* update_4bar_from_sliders: self.solve_constraints(iterations=8)
update_settle_iterations == 8

Abs(n) == IF n < 0 THEN -n ELSE n

RECURSIVE SqrtBetween(_, _, _)
SqrtBetween(n, lo, hi) ==
    IF lo >= hi THEN lo
    ELSE LET mid == (lo + hi + 1) \div 2
         IN  IF mid * mid <= n THEN SqrtBetween(n, mid, hi)
             ELSE SqrtBetween(n, lo, mid - 1)

\* math.hypot
hypot(dx, dy) ==
    IF dy = 0 THEN Abs(dx)
    ELSE IF dx = 0 THEN Abs(dy)
    ELSE SqrtBetween(dx * dx + dy * dy, 0, Abs(dx) + Abs(dy))

\* class Point (both programs)
Point(x, y) ==
    [x |-> x, y |-> y, locked |-> FALSE, selected |-> FALSE,
     is_motor |-> FALSE, motor_angle |-> 0, motor_rps |-> 0,
     motor_anchor |-> None]

\* class Link (both programs)
Link(a_idx, b_idx, rest_length) == [a |-> a_idx, b |-> b_idx, rest |-> rest_length]

Last(s) == s[Len(s)]

PosOf(p) == <<p.x, p.y>>

Programs == {"LinkageStudioPlus", "LinkageApp"}

(***************************************************************************)
(* Constraint solver (position-based dynamics)                             *)
(***************************************************************************)
\* dx * diff with diff = (d - rest) / d, times 1/den
Corr(dx, d, rest, den) == (dx * (d - rest)) \div (den * d)

MoveBy(pts, i, ddx, ddy) ==
    [pts EXCEPT ![i].x = @ + ddx, ![i].y = @ + ddy]

\* LinkageStudioPlus.solve_constraints: the body of the loop over links
correct_link(pts, link) ==
    LET a  == pts[link.a]
        b  == pts[link.b]
        dx == b.x - a.x
        dy == b.y - a.y
        d  == hypot(dx, dy)
    IN  IF d = 0 THEN pts
        ELSE IF a.locked /\ b.locked THEN pts
        ELSE IF a.locked THEN
            MoveBy(pts, link.b, -Corr(dx, d, link.rest, 1), -Corr(dy, d, link.rest, 1))
        ELSE IF b.locked THEN
            MoveBy(pts, link.a, Corr(dx, d, link.rest, 1), Corr(dy, d, link.rest, 1))
        ELSE
            MoveBy(MoveBy(pts, link.a, Corr(dx, d, link.rest, 2), Corr(dy, d, link.rest, 2)),
                   link.b, -Corr(dx, d, link.rest, 2), -Corr(dy, d, link.rest, 2))

\* one pass "for link in self.links", from link k on
RECURSIVE solve_pass(_, _, _)
solve_pass(pts, lks, k) ==
    IF k > Len(lks) THEN pts
    ELSE solve_pass(correct_link(pts, lks[k]), lks, k + 1)

\* "for it in range(iterations)"; a pass that changes nothing is a fixed point
\* of the passes that follow it
RECURSIVE solve_iterate(_, _, _)
solve_iterate(pts, lks, iterations) ==
    IF iterations <= 0 THEN pts
    ELSE LET nxt == solve_pass(pts, lks, 1)
         IN  IF nxt = pts THEN pts ELSE solve_iterate(nxt, lks, iterations - 1)

\* LinkageStudioPlus.solve_constraints(iterations)
solve_constraints(pts, lks, iterations) ==
    IF lks = <<>> THEN pts ELSE solve_iterate(pts, lks, iterations)

\* LinkageApp.solve_constraints: the body of the loop over links
App_correct_link(pts, link) ==
    LET a  == pts[link.a]
        b  == pts[link.b]
        dx == b.x - a.x
        dy == b.y - a.y
        d  == hypot(dx, dy)
        p1 == IF ~a.locked
              THEN MoveBy(pts, link.a, Corr(dx, d, link.rest, 2), Corr(dy, d, link.rest, 2))
              ELSE pts
    IN  IF d = 0 THEN pts
        ELSE IF ~b.locked
             THEN MoveBy(p1, link.b, -Corr(dx, d, link.rest, 2), -Corr(dy, d, link.rest, 2))
             ELSE p1

RECURSIVE App_solve_pass(_, _, _)
App_solve_pass(pts, lks, k) ==
    IF k > Len(lks) THEN pts
    ELSE App_solve_pass(App_correct_link(pts, lks[k]), lks, k + 1)

\* "for _ in range(self.solver_iters.get())"
RECURSIVE App_solve_iterate(_, _, _)
App_solve_iterate(pts, lks, iterations) ==
    IF iterations <= 0 THEN pts
    ELSE LET nxt == App_solve_pass(pts, lks, 1)
         IN  IF nxt = pts THEN pts ELSE App_solve_iterate(nxt, lks, iterations - 1)

\* LinkageApp.solve_constraints (iterations = self.solver_iters.get())
App_solve_constraints(pts, lks, iterations) == App_solve_iterate(pts, lks, iterations)

(***************************************************************************)
(* FABRIK inverse kinematics (src/linkage.py, fabrik_chain_positions)      *)
(***************************************************************************)
\* (1-lam)*p + lam*q with lam = num / den
Mix(p, q, num, den) ==
    << ((den - num) * p[1] + num * q[1]) \div den,
       ((den - num) * p[2] + num * q[2]) \div den >>

Dist(p, q) == hypot(q[1] - p[1], q[2] - p[2])

\* pos = [(points[i].x, points[i].y) for i in indices]
chain_pos(pts, indices) ==
    [i \in 1..Len(indices) |-> <<pts[indices[i]].x, pts[indices[i]].y>>]

\* dists: the segment lengths of the chain when the call starts
chain_dists(pos) ==
    [i \in 1..(Len(pos) - 1) |-> Dist(pos[i], pos[i + 1])]

RECURSIVE SumSeq(_, _)
SumSeq(s, k) == IF k > Len(s) THEN 0 ELSE s[k] + SumSeq(s, k + 1)

\* mutant: every joint is placed at its segment length from the base, not from
\* its predecessor
RECURSIVE fabrik_stretch_from_base(_, _, _, _)
fabrik_stretch_from_base(pos, dists, target, i) ==
    IF i > Len(pos) - 1 THEN pos
    ELSE LET r == Dist(pos[1], target)
         IN  IF r = 0 THEN fabrik_stretch_from_base(pos, dists, target, i + 1)
             ELSE fabrik_stretch_from_base(
                      [pos EXCEPT ![i + 1] = Mix(pos[1], target, dists[i], r)],
                      dists, target, i + 1)

\* target unreachable: stretch toward target, for i in range(len(pos)-1)
RECURSIVE fabrik_stretch(_, _, _, _)
fabrik_stretch(pos, dists, target, i) ==
    IF i > Len(pos) - 1 THEN pos
    ELSE LET r == Dist(pos[i], target)
         IN  IF r = 0 THEN fabrik_stretch(pos, dists, target, i + 1)
             ELSE fabrik_stretch(
                      [pos EXCEPT ![i + 1] = Mix(pos[i], target, dists[i], r)],
                      dists, target, i + 1)

\* "forward reaching": for i in range(len(pos)-2, -1, -1)
RECURSIVE fabrik_forward(_, _, _)
fabrik_forward(pos, dists, i) ==
    IF i < 1 THEN pos
    ELSE LET r == Dist(pos[i], pos[i + 1])
         IN  IF r = 0 THEN fabrik_forward(pos, dists, i - 1)
             ELSE fabrik_forward(
                      [pos EXCEPT ![i] = Mix(pos[i + 1], pos[i], dists[i], r)],
                      dists, i - 1)

\* "backward reaching": for i in range(len(pos)-1)
RECURSIVE fabrik_backward(_, _, _)
fabrik_backward(pos, dists, i) ==
    IF i > Len(pos) - 1 THEN pos
    ELSE LET r == Dist(pos[i], pos[i + 1])
         IN  IF r = 0 THEN fabrik_backward(pos, dists, i + 1)
             ELSE fabrik_backward(
                      [pos EXCEPT ![i + 1] = Mix(pos[i], pos[i + 1], dists[i], r)],
                      dists, i + 1)

\* mutant: the loop without "pos[0] = b" before the backward pass
RECURSIVE fabrik_iterate_base_unpinned(_, _, _, _, _, _, _)
fabrik_iterate_base_unpinned(pos, dists, b, target, tolerance, max_iters, it) ==
    IF ~(Dist(pos[Len(pos)], target) > tolerance /\ it < max_iters) THEN pos
    ELSE LET p1 == [pos EXCEPT ![Len(pos)] = target]
             p2 == fabrik_forward(p1, dists, Len(pos) - 1)
             p4 == fabrik_backward(p2, dists, 1)
         IN  fabrik_iterate_base_unpinned(p4, dists, b, target, tolerance,
                                          max_iters, it + 1)

\* while dif > tolerance and it < max_iters
RECURSIVE fabrik_iterate(_, _, _, _, _, _, _)
fabrik_iterate(pos, dists, b, target, tolerance, max_iters, it) ==
    IF ~(Dist(pos[Len(pos)], target) > tolerance /\ it < max_iters) THEN pos
    ELSE LET p1 == [pos EXCEPT ![Len(pos)] = target]
             p2 == fabrik_forward(p1, dists, Len(pos) - 1)
             p3 == [p2 EXCEPT ![1] = b]
             p4 == fabrik_backward(p3, dists, 1)
         IN  fabrik_iterate(p4, dists, b, target, tolerance, max_iters, it + 1)

\* the chain positions computed before the write-back
fabrik_solve(pos, target, tolerance, max_iters) ==
    LET dists     == chain_dists(pos)
        total_len == SumSeq(dists, 1)
        target_dist == Dist(pos[1], target)
    IN  IF target_dist > total_len
        THEN fabrik_stretch(pos, dists, target, 1)
        ELSE fabrik_iterate(pos, dists, pos[1], target, tolerance, max_iters, 0)

\* mutant: the write-back without the lock test
RECURSIVE fabrik_write_back_unlocked(_, _, _, _)
fabrik_write_back_unlocked(pts, indices, pos, k) ==
    IF k > Len(indices) THEN pts
    ELSE fabrik_write_back_unlocked(
             [pts EXCEPT ![indices[k]].x = pos[k][1], ![indices[k]].y = pos[k][2]],
             indices, pos, k + 1)

\* write back positions to points (skip locked points)
RECURSIVE fabrik_write_back(_, _, _, _)
fabrik_write_back(pts, indices, pos, k) ==
    IF k > Len(indices) THEN pts
    ELSE LET idx == indices[k]
             nxt == IF ~pts[idx].locked
                    THEN [pts EXCEPT ![idx].x = pos[k][1], ![idx].y = pos[k][2]]
                    ELSE pts
         IN  fabrik_write_back(nxt, indices, pos, k + 1)

\* mutant: a chain of one joint solved by putting the joint on the target
fabrik_chain_positions_single_reaches(pts, indices, target, tolerance, max_iters) ==
    IF Len(indices) = 0 THEN pts
    ELSE IF Len(indices) = 1
    THEN [pts EXCEPT ![indices[1]].x = target[1], ![indices[1]].y = target[2]]
    ELSE fabrik_write_back(pts, indices,
             fabrik_solve(chain_pos(pts, indices), target, tolerance, max_iters), 1)

\* fabrik_chain_positions: the points it leaves
fabrik_chain_positions(pts, indices, target, tolerance, max_iters) ==
    IF Len(indices) < 2 THEN pts
    ELSE fabrik_write_back(pts, indices,
             fabrik_solve(chain_pos(pts, indices), target, tolerance, max_iters), 1)

\* fabrik_chain_positions: the value it returns
fabrik_returns(pts, indices, target, tolerance, max_iters) ==
    IF Len(indices) < 2 THEN FALSE ELSE TRUE

(***************************************************************************)
(* Editor: snapping, picking, joint and link creation                      *)
(***************************************************************************)
\* Python's round(n / g) for integers n and g > 0 (ties go to the even integer)
RoundDiv(n, g) ==
    LET q == n \div g
        r == n % g
    IN  IF 2 * r < g THEN q
        ELSE IF 2 * r > g THEN q + 1
        ELSE IF q % 2 = 0 THEN q ELSE q + 1

\* LinkageStudioPlus.snap_to_grid, with snap_grid ticked as a session starts
snap_to_grid(x, y) == <<RoundDiv(x, grid_size) * grid_size, RoundDiv(y, grid_size) * grid_size>>

\* LinkageStudioPlus.snap_to_near_point, with snap_points ticked, from joint i on
RECURSIVE snap_to_near_point(_, _, _, _)
snap_to_near_point(pts, x, y, i) ==
    IF i > Len(pts) THEN <<x, y>>
    ELSE LET dx == pts[i].x - x
             dy == pts[i].y - y
         IN  IF dx * dx + dy * dy <= near_snap_radius * near_snap_radius
             THEN PosOf(pts[i])
             ELSE snap_to_near_point(pts, x, y, i + 1)

\* LinkageStudioPlus.snap_all
snap_all(pts, x, y) ==
    LET g == snap_to_grid(x, y) IN snap_to_near_point(pts, g[1], g[2], 1)

\* LinkageStudioPlus.find_point_near(x, y, radius=12), from joint i on
RECURSIVE find_point_near_from(_, _, _, _, _, _)
find_point_near_from(pts, x, y, i, best, bestd) ==
    IF i > Len(pts) THEN best
    ELSE LET dx == pts[i].x - x
             dy == pts[i].y - y
             d2 == dx * dx + dy * dy
         IN  IF d2 <= bestd THEN find_point_near_from(pts, x, y, i + 1, i, d2)
             ELSE find_point_near_from(pts, x, y, i + 1, best, bestd)

find_point_near(pts, x, y) ==
    find_point_near_from(pts, x, y, 1, None, pick_radius * pick_radius)

\* LinkageApp.find_point, from joint i on
RECURSIVE App_find_point_from(_, _, _, _)
App_find_point_from(pts, x, y, i) ==
    IF i > Len(pts) THEN None
    ELSE IF (pts[i].x - x) * (pts[i].x - x) + (pts[i].y - y) * (pts[i].y - y)
               <= App_pick_radius * App_pick_radius
         THEN i
         ELSE App_find_point_from(pts, x, y, i + 1)

App_find_point(pts, x, y) == App_find_point_from(pts, x, y, 1)

\* some link joins a_idx and b_idx already (the loop of create_link)
link_exists(lks, a_idx, b_idx) ==
    \E k \in 1..Len(lks) :
        \/ lks[k].a = a_idx /\ lks[k].b = b_idx
        \/ lks[k].a = b_idx /\ lks[k].b = a_idx

\* create_link gets past its two tests and indexes self.points out of range
create_link_raises(pts, lks, a_idx, b_idx) ==
    /\ a_idx # b_idx /\ ~link_exists(lks, a_idx, b_idx)
    /\ (a_idx \notin 1..Len(pts) \/ b_idx \notin 1..Len(pts))

\* LinkageStudioPlus.create_link(a_idx, b_idx): the links it leaves
create_link(pts, lks, a_idx, b_idx) ==
    IF a_idx = b_idx THEN lks
    ELSE IF link_exists(lks, a_idx, b_idx) THEN lks
    ELSE Append(lks, Link(a_idx, b_idx,
                          hypot(pts[a_idx].x - pts[b_idx].x, pts[a_idx].y - pts[b_idx].y)))

\* LinkageStudioPlus.add_point(x, y): <<points, links>> it leaves
add_point(pts, lks, m, x, y) ==
    LET grown == Append(pts, Point(x, y))
    IN  IF Len(grown) >= 2 /\ m = "add"
        THEN <<grown, create_link(grown, lks, Len(grown) - 1, Len(grown))>>
        ELSE <<grown, lks>>

\* LinkageApp.add_link indexes self.points out of range
App_add_link_raises(pts, a, b) == a \notin 1..Len(pts) \/ b \notin 1..Len(pts)

\* LinkageApp.add_link(a, b): the links it leaves
App_add_link(pts, lks, a, b) ==
    Append(lks, Link(a, b, hypot(pts[b].x - pts[a].x, pts[b].y - pts[a].y)))

\* LinkageApp.add_point(x, y): <<points, links>> it leaves
App_add_point(pts, lks, x, y) ==
    LET grown == Append(pts, Point(x, y))
    IN  IF Len(grown) > 1
        THEN <<grown, App_add_link(grown, lks, Len(grown) - 1, Len(grown))>>
        ELSE <<grown, lks>>

\* mutant: the picked joint is flagged and the other flags are left as they are
select_point_keeps_others(pts, idx) ==
    [i \in 1..Len(pts) |-> [pts[i] EXCEPT !.selected = (@ \/ i = idx)]]

\* select_point(idx) / LinkageApp.select(idx)
select_point(pts, idx) ==
    [i \in 1..Len(pts) |-> [pts[i] EXCEPT !.selected = (i = idx)]]

\* the "motor" branch of on_left_click on joint idx
toggle_motor(pts, idx, speed) ==
    IF pts[idx].is_motor
    THEN [pts EXCEPT ![idx].is_motor = FALSE, ![idx].motor_rps = 0]
    ELSE [pts EXCEPT ![idx].is_motor = TRUE, ![idx].motor_rps = speed,
                     ![idx].motor_anchor = None]

\* lock_selected_as_ground: "if p.selected: p.locked = not p.locked"
lock_selected_as_ground(pts) ==
    [i \in 1..Len(pts) |->
        IF pts[i].selected THEN [pts[i] EXCEPT !.locked = ~@] ELSE pts[i]]

\* toggle_motor_on_selected, from joint i on
RECURSIVE toggle_motor_on_selected(_, _, _)
toggle_motor_on_selected(pts, speed, i) ==
    IF i > Len(pts) THEN pts
    ELSE IF pts[i].selected
    THEN toggle_motor_on_selected(toggle_motor(pts, i, speed), speed, i + 1)
    ELSE toggle_motor_on_selected(pts, speed, i + 1)

\* the "motor" branch of LinkageApp.left_click on joint idx ("motor_anchor = 0")
App_toggle_motor(pts, idx, speed) ==
    IF pts[idx].is_motor
    THEN [pts EXCEPT ![idx].is_motor = FALSE, ![idx].motor_rps = 0]
    ELSE [pts EXCEPT ![idx].is_motor = TRUE, ![idx].motor_rps = speed,
                     ![idx].motor_anchor = 1]

(***************************************************************************)
(* Four-bar synthesis: _grashof_ok, generate_4bar_from_sliders and         *)
(* update_4bar_from_sliders.  A length is the slider value times           *)
(* fb_scale_unit, in pixels.                                               *)
(***************************************************************************)
Min4(a, b, c, d) == CHOOSE m \in {a, b, c, d} : \A o \in {a, b, c, d} : m <= o
Max4(a, b, c, d) == CHOOSE m \in {a, b, c, d} : \A o \in {a, b, c, d} : m >= o

\* LinkageStudioPlus._grashof_ok: s + l <= p + q on the sorted lengths
grashof_ok(a, b, c, d) ==
    LET s == Min4(a, b, c, d)
        l == Max4(a, b, c, d)
    IN  s + l <= (a + b + c + d) - (s + l)

\* the nudging loop of generate_4bar_from_sliders: <<a, d, attempt>> on exit
RECURSIVE grashof_nudge(_, _, _, _, _)
grashof_nudge(a, b, c, d, attempt) ==
    IF ~grashof_ok(a, b, c, d) /\ attempt < grashof_max_attempts
    THEN grashof_nudge((a * 97) \div 100, b, c, (d * 103) \div 100, attempt + 1)
    ELSE <<a, d, attempt>>

\* mutant: lengths nudged whether or not Grashof enforcement is on
four_bar_lengths_always_nudged(a, b, c, d, grashof) ==
    LET n == grashof_nudge(a, b, c, d, 0) IN <<n[1], b, c, n[2]>>

\* the lengths <<a, b, c, d>> that synthesis uses
four_bar_lengths(a, b, c, d, grashof) ==
    IF grashof
    THEN LET n == grashof_nudge(a, b, c, d, 0) IN <<n[1], b, c, n[2]>>
    ELSE <<a, b, c, d>>

Sgn(n) == IF n > 0 THEN 1 ELSE IF n < 0 THEN -1 ELSE 0

\* joint C: the elbow-up intersection of the circle of radius b around B and
\* the circle of radius c around D, B and D on one horizontal line
four_bar_C(Bx, By, Dx, b, c) ==
    LET dx == Dx - Bx
        R  == hypot(dx, 0)
    IN  IF R = 0
        THEN <<Bx, By>>
        ELSE LET x    == (b * b - c * c + R * R) \div (2 * R)
                 y_sq == b * b - x * x
                 y    == IF y_sq < 0 THEN 0 ELSE SqrtBetween(y_sq, 0, y_sq)
             IN  <<Bx + x * Sgn(dx), By + y * Sgn(dx)>>

\* math.atan2(dy, dx) in quarter turns, for an offset on an axis
atan2(dy, dx) ==
    IF dy = 0 THEN (IF dx >= 0 THEN 0 ELSE 2)
    ELSE IF dy > 0 THEN 1 ELSE -1

\* mutant: synthesis that grounds joint A only
generate_4bar_ground_A_only(a0, b0, c0, d0, grashof, rpm) ==
    LET len == four_bar_lengths(a0, b0, c0, d0, grashof)
        Bx  == FourBarAx + len[1]
        Dx  == FourBarAx + len[4]
        C   == four_bar_C(Bx, FourBarAy, Dx, len[2], len[3])
        bare == << [Point(FourBarAx, FourBarAy) EXCEPT !.locked = TRUE],
                   Point(Bx, FourBarAy), Point(C[1], C[2]), Point(Dx, FourBarAy) >>
    IN  << [bare EXCEPT ![2].is_motor = TRUE, ![2].motor_rps = rpm,
                        ![2].motor_anchor = 1],
           create_link(bare, create_link(bare, create_link(bare,
               create_link(bare, <<>>, 1, 2), 2, 3), 3, 4), 4, 1) >>

\* LinkageStudioPlus.generate_4bar_from_sliders: <<points, links>> it leaves
generate_4bar_from_sliders(a0, b0, c0, d0, grashof, rpm) ==
    LET len == four_bar_lengths(a0, b0, c0, d0, grashof)
        Bx  == FourBarAx + len[1]
        Dx  == FourBarAx + len[4]
        C   == four_bar_C(Bx, FourBarAy, Dx, len[2], len[3])
        bare == << [Point(FourBarAx, FourBarAy) EXCEPT !.locked = TRUE],
                   Point(Bx, FourBarAy),
                   Point(C[1], C[2]),
                   [Point(Dx, FourBarAy) EXCEPT !.locked = TRUE] >>
        l1  == create_link(bare, <<>>, 1, 2)
        l2  == create_link(bare, l1, 2, 3)
        l3  == create_link(bare, l2, 3, 4)
        l4  == create_link(bare, l3, 4, 1)
    IN  << [bare EXCEPT ![2].is_motor = TRUE,
                        ![2].motor_rps = rpm,
                        ![2].motor_anchor = 1,
                        ![2].motor_angle = atan2(bare[2].y - bare[1].y,
                                                 bare[2].x - bare[1].x)],
           l4 >>

\* set_rest_between(u, v, val) inside update_4bar_from_sliders, from link k on
RECURSIVE set_rest_between(_, _, _, _, _)
set_rest_between(lks, u, v, val, k) ==
    IF k > Len(lks) THEN lks
    ELSE IF (lks[k].a = u /\ lks[k].b = v) \/ (lks[k].a = v /\ lks[k].b = u)
         THEN [lks EXCEPT ![k].rest = val]
         ELSE set_rest_between(lks, u, v, val, k + 1)

\* update_4bar_from_sliders: "for p in self.points: if p.is_motor: p.motor_rps = .."
update_motor_rps(pts, rpm) ==
    [i \in 1..Len(pts) |->
        IF pts[i].is_motor THEN [pts[i] EXCEPT !.motor_rps = rpm] ELSE pts[i]]

\* LinkageStudioPlus.update_4bar_from_sliders: <<points, links>> it leaves
update_4bar_from_sliders(pts, lks, a, b, c, d, rpm) ==
    IF Len(pts) < 4 \/ Len(lks) < 4 THEN <<pts, lks>>
    ELSE LET Ax == pts[1].x
             Ay == pts[1].y
             C  == four_bar_C(Ax + a, Ay, Ax + d, b, c)
             placed == [pts EXCEPT ![2].x = Ax + a, ![2].y = Ay,
                                   ![3].x = C[1], ![3].y = C[2]]
             r1 == set_rest_between(lks, 1, 2, a, 1)
             r2 == set_rest_between(r1, 2, 3, b, 1)
             r3 == set_rest_between(r2, 3, 4, c, 1)
             r4 == set_rest_between(r3, 4, 1, d, 1)
         IN  << solve_constraints(update_motor_rps(placed, rpm), r4,
                                  update_settle_iterations),
                r4 >>

(***************************************************************************)
(* Motor driver                                                            *)
(***************************************************************************)
\* math.cos and math.sin of q quarter turns
Cos4(q) == CASE q % 4 = 0 -> 1 [] q % 4 = 2 -> -1 [] OTHER -> 0
Sin4(q) == CASE q % 4 = 1 -> 1 [] q % 4 = 3 -> -1 [] OTHER -> 0

\* mutant: an anchor index past the last joint taken as the last joint
motor_anchor_pos_clamped(pts, p) ==
    IF p.motor_anchor = None THEN <<0, 0>>
    ELSE IF p.motor_anchor \in 1..Len(pts) THEN PosOf(pts[p.motor_anchor])
    ELSE PosOf(pts[Len(pts)])

\* the anchor position LinkageStudioPlus.apply_motors finds for joint p
motor_anchor_pos(pts, p) ==
    IF p.motor_anchor = None THEN <<0, 0>>
    ELSE IF p.motor_anchor \in 1..Len(pts) THEN PosOf(pts[p.motor_anchor])
    ELSE <<0, 0>>

\* LinkageStudioPlus.apply_motors(dt): "for i,p in enumerate(self.points)", from i on
RECURSIVE apply_motors_from(_, _, _, _)
apply_motors_from(pts, speed, dt, i) ==
    IF i > Len(pts) THEN pts
    ELSE IF ~pts[i].is_motor THEN apply_motors_from(pts, speed, dt, i + 1)
    ELSE LET p     == pts[i]
             rps   == speed
             anc   == motor_anchor_pos(pts, p)
             angle == p.motor_angle + (rps * dt) \div 1800
             r0    == hypot(p.x - anc[1], p.y - anc[2])
             r     == IF r0 = 0 THEN 1 ELSE r0
         IN  apply_motors_from(
                 [pts EXCEPT ![i] = [p EXCEPT !.motor_rps = rps,
                                              !.motor_angle = angle,
                                              !.x = anc[1] + r * Cos4(angle),
                                              !.y = anc[2] + r * Sin4(angle)]],
                 speed, dt, i + 1)

apply_motors(pts, speed, dt) == apply_motors_from(pts, speed, dt, 1)

\* "anchor = self.points[p.motor_anchor]" raises: TypeError on None, IndexError
\* on an index past the last joint
App_apply_motors_raises(pts) ==
    \E i \in 1..Len(pts) :
        pts[i].is_motor /\ pts[i].motor_anchor \notin 1..Len(pts)

\* LinkageApp.apply_motors(dt), from joint i on; the loop ends where the anchor
\* lookup raises
RECURSIVE App_apply_motors_from(_, _, _)
App_apply_motors_from(pts, dt, i) ==
    IF i > Len(pts) THEN pts
    ELSE IF ~pts[i].is_motor THEN App_apply_motors_from(pts, dt, i + 1)
    ELSE IF pts[i].motor_anchor \notin 1..Len(pts) THEN pts
    ELSE LET p     == pts[i]
             anc   == PosOf(pts[p.motor_anchor])
             r     == hypot(p.x - anc[1], p.y - anc[2])
             angle == p.motor_angle + (p.motor_rps * dt) \div 1800
         IN  App_apply_motors_from(
                 [pts EXCEPT ![i] = [p EXCEPT !.motor_angle = angle,
                                              !.x = anc[1] + r * Cos4(angle),
                                              !.y = anc[2] + r * Sin4(angle)]],
                 dt, i + 1)

App_apply_motors(pts, dt) == App_apply_motors_from(pts, dt, 1)

(***************************************************************************)
(* Frame stepper: the phases of tick_once and of LinkageApp.tick           *)
(***************************************************************************)
\* a trace sample that is None
NoSample == <<>>

\* LinkageStudioPlus.world_coupler_pos
world_coupler_pos(pts, lks) ==
    IF coupler_link_index < 1 \/ coupler_link_index > Len(lks) THEN NoSample
    ELSE LET link == lks[coupler_link_index]
         IN  Mix(PosOf(pts[link.a]), PosOf(pts[link.b]),
                 coupler_fraction[1], coupler_fraction[2])

\* LinkageApp.get_mid_link
get_mid_link(pts, lks) ==
    IF lks = <<>> THEN NoSample
    ELSE LET a == pts[lks[1].a]
             b == pts[lks[1].b]
         IN  <<(a.x + b.x) \div 2, (a.y + b.y) \div 2>>

\* the "# trace" loop of LinkageApp.redraw, "for x,y in self.trace", raises
\* TypeError on a sample that is None
App_redraw_raises(trace) ==
    Len(trace) > 2 /\ \E k \in 1..Len(trace) : trace[k] = NoSample

\* mutant: the IK phase without the settle pass that follows the IK solver
tick_once_ik_unsettled(pts, lks, active, chain, target) ==
    IF active /\ chain # <<>> /\ target # NoTarget
    THEN fabrik_chain_positions(pts, chain, target, tick_ik_tolerance, tick_ik_max_iters)
    ELSE pts

\* the "# IK" block of tick_once
tick_once_ik(pts, lks, active, chain, target) ==
    IF active /\ chain # <<>> /\ target # NoTarget
    THEN solve_constraints(
             fabrik_chain_positions(pts, chain, target,
                                    tick_ik_tolerance, tick_ik_max_iters),
             lks, tick_settle_iterations)
    ELSE pts

\* the "# trace" block of tick_once: the trace it leaves
tick_once_trace(pts, lks, trace, enabled) ==
    IF ~enabled THEN trace
    ELSE LET cp    == world_coupler_pos(pts, lks)
             grown == IF cp # NoSample THEN Append(trace, cp) ELSE trace
         IN  IF Len(grown) > TraceCap THEN Tail(grown) ELSE grown

(***************************************************************************)
(* IK chain: LinkageStudioPlus.find_path and prepare_ik_chain               *)
(***************************************************************************)
\* what find_path returns: None, or a path
PathNone == [is_none |-> TRUE, path |-> <<>>]
PathOf(path) == [is_none |-> FALSE, path |-> path]

\* mutant: a link is followed from its a end only
find_path_nbr_directed(l, cur) ==
    IF l.a = cur THEN l.b ELSE None

\* nbr = None; if l.a == cur: nbr = l.b; elif l.b == cur: nbr = l.a
find_path_nbr(l, cur) ==
    IF l.a = cur THEN l.b
    ELSE IF l.b = cur THEN l.a
    ELSE None

\* "for l in self.links", from link k on: <<prev, q>> after the loop
RECURSIVE find_path_links(_, _, _, _, _)
find_path_links(cur, lks, k, prev, q) ==
    IF k > Len(lks) THEN <<prev, q>>
    ELSE LET nbr == find_path_nbr(lks[k], cur)
         IN  IF nbr # None /\ nbr \notin DOMAIN prev
             THEN find_path_links(cur, lks, k + 1, prev @@ (nbr :> cur), Append(q, nbr))
             ELSE find_path_links(cur, lks, k + 1, prev, q)

\* "while cur is not None: path.append(cur); cur = prev[cur]", then reversed
RECURSIVE find_path_build(_, _)
find_path_build(prev, cur) ==
    IF cur = None THEN <<>>
    ELSE Append(find_path_build(prev, prev[cur]), cur)

\* "while q"
RECURSIVE find_path_bfs(_, _, _, _)
find_path_bfs(q, prev, b, lks) ==
    IF q = <<>> THEN PathNone
    ELSE LET cur == Head(q)
         IN  IF cur = b THEN PathOf(find_path_build(prev, cur))
             ELSE LET r == find_path_links(cur, lks, 1, prev, Tail(q))
                  IN  find_path_bfs(r[2], r[1], b, lks)

\* LinkageStudioPlus.find_path(a, b)
find_path(lks, a, b) == find_path_bfs(<<a>>, (a :> None), b, lks)

\* sel = [i for i,p in enumerate(self.points) if p.selected]
RECURSIVE selected_indices(_, _)
selected_indices(pts, k) ==
    IF k > Len(pts) THEN <<>>
    ELSE IF pts[k].selected THEN <<k>> \o selected_indices(pts, k + 1)
    ELSE selected_indices(pts, k + 1)

\* mutant: the two endpoints stay stored when no path joins them
prepare_ik_chain_keeps_endpoints(pts, lks, chain) ==
    LET sel == selected_indices(pts, 1)
    IN  IF Len(sel) < 2 THEN chain
        ELSE LET path == find_path(lks, sel[1], sel[2])
             IN  IF path.is_none THEN <<sel[1], sel[2]>> ELSE path.path

\* LinkageStudioPlus.prepare_ik_chain: the ik_chain it leaves
prepare_ik_chain(pts, lks, chain) ==
    LET sel == selected_indices(pts, 1)
    IN  IF Len(sel) < 2 THEN chain
        ELSE LET path == find_path(lks, sel[1], sel[2])
             IN  IF path.is_none THEN <<>> ELSE path.path

(***************************************************************************)
(* The kinematics engine on its own: a model handed to the solver and to   *)
(* the IK solver, in any sequence of calls (SpecEngine).                   *)
(***************************************************************************)
NoCall == [op |-> "none", link |-> 0, a |-> 0, b |-> 0, chain |-> <<>>,
           target |-> <<0, 0>>, tolerance |-> 0, iterations |-> 0, ret |-> FALSE,
           before |-> <<>>, dt |-> 0,
           lengths |-> <<>>, grashof |-> FALSE, attempts |-> 0,
           raised |-> FALSE]

\* the editor state of a fresh session (LinkageStudioPlus.__init__)
SessionDefaults ==
    /\ trace_points = <<>>
    /\ mode = "add"
    /\ connect_sel = <<>>
    /\ temp_link = <<>>
    /\ ik_active = FALSE
    /\ ik_chain = <<>>
    /\ ik_target = NoTarget
    /\ trace_enabled = TRUE
    /\ solver_iters = 16
    /\ motor_speed = 90
    /\ playing = FALSE
    /\ pc = "idle"
    /\ call = NoCall
    /\ nops = 0

\* joints are drawn on one axis, where every length is an integer
EngineCoords == {0, 4}
EngineRests == {6}
EngineTargets == {-40, 0, 2, 4}
\* <<tolerance, max_iters>> of an IK call, <<iterations>> of a solver call
EngineBudgets == {<<0, 1>>, <<2, 3>>}
EngineIters == {1, 3}
OnAxis(axis, c) == IF axis = "x" THEN <<c, 0>> ELSE <<0, c>>

\* a chain of n joints linked 1-2, 2-3, ..: joint i at xs[i], locked per lk[i],
\* link i with rest length rs[i] (the live length, as create_link sets it, or
\* another one, as a drag or a load leaves it)
EngineModel(axis, xs, lk, rs) ==
    /\ points = [i \in 1..Len(xs) |->
                    [Point(OnAxis(axis, xs[i])[1], OnAxis(axis, xs[i])[2])
                        EXCEPT !.locked = lk[i]]]
    /\ links = [i \in 1..(Len(xs) - 1) |-> Link(i, i + 1, rs[i])]

InitEngine ==
    /\ SessionDefaults
    /\ program \in Programs
    /\ \E n \in 2..MaxJoints, axis \in {"x", "y"}, atRest \in BOOLEAN :
       \E xs \in [1..n -> EngineCoords], lk \in [1..n -> BOOLEAN] :
          EngineModel(axis, xs, lk,
              [i \in 1..(n - 1) |->
                  IF atRest THEN Abs(xs[i + 1] - xs[i])
                  ELSE CHOOSE r \in EngineRests : TRUE])

EngineUnchanged ==
    UNCHANGED <<program, links, trace_points, mode, connect_sel, temp_link, ik_active,
                ik_chain, ik_target, trace_enabled, solver_iters, motor_speed,
                playing, pc>>

\* the axis the model lies on: targets are drawn on it
EngineAxis == IF \A i \in 1..Len(points) : points[i].y = 0 THEN "x" ELSE "y"

\* the index lists handed to the IK solver: none, one joint, the whole chain
\* and the whole chain reversed
EngineChains ==
    LET n == Len(points)
    IN  { <<>>, <<1>>, [k \in 1..n |-> k], [k \in 1..n |-> n - k + 1] }

\* one correction of link k inside LinkageStudioPlus.solve_constraints
CorrectCall(k) ==
    /\ program = "LinkageStudioPlus"
    /\ nops < MaxOps
    /\ points' = correct_link(points, links[k])
    /\ call' = [NoCall EXCEPT !.op = "correct_link", !.link = k]
    /\ nops' = nops + 1
    /\ EngineUnchanged

\* one correction of link k inside LinkageApp.solve_constraints
AppCorrectCall(k) ==
    /\ program = "LinkageApp"
    /\ nops < MaxOps
    /\ points' = App_correct_link(points, links[k])
    /\ call' = [NoCall EXCEPT !.op = "App_correct_link", !.link = k]
    /\ nops' = nops + 1
    /\ EngineUnchanged

\* LinkageStudioPlus.solve_constraints(iterations)
SolveCall(iterations) ==
    /\ program = "LinkageStudioPlus"
    /\ nops < MaxOps
    /\ points' = solve_constraints(points, links, iterations)
    /\ call' = [NoCall EXCEPT !.op = "solve_constraints", !.iterations = iterations]
    /\ nops' = nops + 1
    /\ EngineUnchanged

\* LinkageApp.solve_constraints()
AppSolveCall ==
    /\ program = "LinkageApp"
    /\ nops < MaxOps
    /\ points' = App_solve_constraints(points, links, App_solver_iters)
    /\ call' = [NoCall EXCEPT !.op = "App_solve_constraints", !.iterations = App_solver_iters]
    /\ nops' = nops + 1
    /\ EngineUnchanged

\* fabrik_chain_positions(points, links, indices, target, tolerance, max_iters)
FabrikCall(indices, target, tolerance, max_iters) ==
    /\ program = "LinkageStudioPlus"
    /\ nops < MaxOps
    /\ points' = fabrik_chain_positions(points, indices, target, tolerance, max_iters)
    /\ call' = [NoCall EXCEPT !.op = "fabrik_chain_positions",
                              !.before = points,
                              !.chain = indices, !.target = target,
                              !.tolerance = tolerance, !.iterations = max_iters,
                              !.ret = fabrik_returns(points, indices, target,
                                                     tolerance, max_iters)]
    /\ nops' = nops + 1
    /\ EngineUnchanged

NextEngine ==
    \/ \E k \in 1..Len(links) : CorrectCall(k)
    \/ \E k \in 1..Len(links) : AppCorrectCall(k)
    \/ \E iterations \in EngineIters : SolveCall(iterations)
    \/ AppSolveCall
    \/ \E indices \in EngineChains, t \in EngineTargets, budget \in EngineBudgets :
          FabrikCall(indices, OnAxis(EngineAxis, t), budget[1], budget[2])

SpecEngine == InitEngine /\ [][NextEngine]_vars

(***************************************************************************)
(* The IK chain finder on its own: a link graph and a selection handed to   *)
(* find_path and to prepare_ik_chain (SpecPath).                            *)
(***************************************************************************)
\* the joint pairs a link may join
PathEdges(n) == { e \in (1..n) \X (1..n) : e[1] < e[2] }

\* the edges of es in the order of their joint numbers
RECURSIVE PathSorted(_)
PathSorted(es) ==
    IF es = {} THEN <<>>
    ELSE LET e == CHOOSE m \in es :
                     \A o \in es : m[1] < o[1] \/ (m[1] = o[1] /\ m[2] <= o[2])
         IN  <<e>> \o PathSorted(es \ {e})

\* joint i at (4i, 0); every link at its live length, as create_link sets it
PathModel(n, es, flip, sel) ==
    /\ points = [i \in 1..n |-> [Point(4 * i, 0) EXCEPT !.selected = (i \in sel)]]
    /\ links = LET order == PathSorted(es)
               IN  [k \in 1..Len(order) |->
                      IF flip[order[k]]
                      THEN Link(order[k][2], order[k][1], 4 * (order[k][2] - order[k][1]))
                      ELSE Link(order[k][1], order[k][2], 4 * (order[k][2] - order[k][1]))]

InitPath ==
    /\ SessionDefaults
    /\ program = "LinkageStudioPlus"
    /\ \E n \in 2..MaxPathJoints :
       \E es \in SUBSET PathEdges(n), sel \in SUBSET (1..n) :
          /\ Cardinality(es) <= MaxPathLinks
          /\ Cardinality(sel) \in {0, 2}
          /\ \E flip \in [es -> BOOLEAN] : PathModel(n, es, flip, sel)

\* Neither call writes what it or the other reads (the links and the selected
\* flags), so one call on each drawn graph covers every sequence of calls.
\* LinkageStudioPlus.find_path(a, b), which reads the links only: called on the
\* graphs drawn with no selection
FindPathCall(a, b) ==
    /\ call.op = "none"
    /\ selected_indices(points, 1) = <<>>
    /\ LET path == find_path(links, a, b)
       IN  call' = [NoCall EXCEPT !.op = "find_path", !.a = a, !.b = b,
                                  !.chain = path.path, !.ret = ~path.is_none]
    /\ UNCHANGED <<program, points, links, trace_points, mode, connect_sel, temp_link,
                   ik_active, ik_chain, ik_target, trace_enabled, solver_iters,
                   motor_speed, playing, pc, nops>>

\* LinkageStudioPlus.prepare_ik_chain()
PrepareIkChainCall ==
    /\ call.op = "none"
    /\ ik_chain' = prepare_ik_chain(points, links, ik_chain)
    /\ call' = [NoCall EXCEPT !.op = "prepare_ik_chain"]
    /\ UNCHANGED <<program, points, links, trace_points, mode, connect_sel, temp_link,
                   ik_active, ik_target, trace_enabled, solver_iters,
                   motor_speed, playing, pc, nops>>

NextPath ==
    \/ \E a \in 1..Len(points), b \in 1..Len(points) : FindPathCall(a, b)
    \/ PrepareIkChainCall

SpecPath == InitPath /\ [][NextPath]_vars

(***************************************************************************)
(* Properties of the chain finder                                          *)
(***************************************************************************)
\* some link joins i and j, in either direction
Joined(lks, i, j) ==
    \E k \in 1..Len(lks) : {lks[k].a, lks[k].b} = {i, j}

\* the joints within h hops of a
RECURSIVE Within(_, _, _, _)
Within(lks, n, a, h) ==
    IF h = 0 THEN {a}
    ELSE LET w == Within(lks, n, a, h - 1)
         IN  w \cup { j \in 1..n : \E i \in w : Joined(lks, i, j) }

Reachable(lks, n, a, b) == b \in Within(lks, n, a, n)

\* the least number of links on a route from a to b
Hops(lks, n, a, b) == CHOOSE h \in 0..n :
    /\ b \in Within(lks, n, a, h)
    /\ \A g \in 0..(h - 1) : b \notin Within(lks, n, a, g)

SimplePath(lks, path, a, b) ==
    /\ path # <<>> /\ path[1] = a /\ path[Len(path)] = b
    /\ \A i \in 1..Len(path), j \in 1..Len(path) : path[i] = path[j] => i = j
    /\ \A i \in 1..(Len(path) - 1) : Joined(lks, path[i], path[i + 1])

\* C4: when b can be reached from a over the links, taken in either direction,
\* find_path(a, b) returns a path from a to b with no repeated joint, every two
\* consecutive joints joined by a link, and as few links as any route has.
C4_ShortestSimplePath ==
    (call.op = "find_path" /\ Reachable(links, Len(points), call.a, call.b))
        => /\ call.ret
           /\ SimplePath(links, call.chain, call.a, call.b)
           /\ Len(call.chain) - 1 = Hops(links, Len(points), call.a, call.b)

\* find_path has returned the one link that joins a and b directly, followed
\* against its direction, although a route of two links joins them as well
C4_Witness ==
    /\ call.op = "find_path" /\ call.ret /\ Len(call.chain) = 2
    /\ \E k \in 1..Len(links) :
          links[k].a = call.chain[2] /\ links[k].b = call.chain[1]
    /\ \E j \in 1..Len(points) :
          /\ j \notin {call.chain[1], call.chain[2]}
          /\ Joined(links, call.chain[1], j) /\ Joined(links, j, call.chain[2])

\* the two selected joints, when exactly two are selected
SelectedPair == selected_indices(points, 1)

\* C5: when no route joins a and b, find_path(a, b) returns None, and
\* prepare_ik_chain on two selected joints that no route joins leaves ik_chain
\* empty.
C5_NoPathNoChain ==
    /\ (call.op = "find_path" /\ ~Reachable(links, Len(points), call.a, call.b))
          => (~call.ret /\ find_path(links, call.a, call.b) = PathNone)
    /\ (/\ call.op = "prepare_ik_chain" /\ Len(SelectedPair) = 2
        /\ ~Reachable(links, Len(points), SelectedPair[1], SelectedPair[2]))
          => ik_chain = <<>>

\* prepare_ik_chain has run on two selected joints that lie in two different
\* linked groups
C5_Witness ==
    /\ call.op = "prepare_ik_chain" /\ Len(SelectedPair) = 2
    /\ ~Reachable(links, Len(points), SelectedPair[1], SelectedPair[2])
    /\ \A s \in 1..2 : \E j \in 1..Len(points) :
          j # SelectedPair[s] /\ Joined(links, SelectedPair[s], j)
    /\ ik_chain = <<>>

(***************************************************************************)
(* Properties of the engine                                                *)
(***************************************************************************)
\* the live length of a link
Live(pts, link) == Dist(PosOf(pts[link.a]), PosOf(pts[link.b]))

RECURSIVE PrefixSum(_, _)
PrefixSum(s, n) == IF n <= 0 THEN 0 ELSE s[n] + PrefixSum(s, n - 1)

IsFabrikCall(c) == c.op = "fabrik_chain_positions" /\ Len(c.chain) >= 2

\* C1: no solver pass and no IK call moves a joint whose locked flag is set, and
\* the correction of a link whose two endpoints are both locked moves no joint.
C1_LockedJointsStay ==
    [][ /\ \A i \in 1..Len(points) :
              points[i].locked => PosOf(points'[i]) = PosOf(points[i])
        /\ \A k \in 1..Len(links) :
              (points[links[k].a].locked /\ points[links[k].b].locked)
                  => /\ correct_link(points, links[k]) = points
                     /\ App_correct_link(points, links[k]) = points ]_vars

\* an IK call has brought a free end-effector onto its target, away from the
\* locked joint before it in the chain, while a link between two locked joints
\* is not at its rest length
C1_Witness ==
    /\ IsFabrikCall(call)
    /\ \E i \in 2..Len(call.chain) : points[call.chain[i]].locked
    /\ ~points[Last(call.chain)].locked
    /\ PosOf(points[Last(call.chain)]) = call.target
    /\ PosOf(points[call.chain[Len(call.chain) - 1]]) # call.target
    /\ \E k \in 1..Len(links) :
          /\ points[links[k].a].locked /\ points[links[k].b].locked
          /\ Live(points, links[k]) # links[k].rest
          /\ Live(points, links[k]) # 0

OneLocked(pts, link) == pts[link.a].locked # pts[link.b].locked

\* C6: with exactly one endpoint locked and a non-zero live length, one correction
\* of the link by either solver moves the free endpoint by the full correction:
\* the live length is the rest length right after it.
C6_FullCorrection ==
    [][ \A k \in 1..Len(links) :
           (/\ nops' # nops
            /\ call'.op \in {"correct_link", "App_correct_link"} /\ call'.link = k
            /\ OneLocked(points, links[k]) /\ Live(points, links[k]) # 0)
               => Live(points', links[k]) = links[k].rest ]_vars

\* C7: two joints, one link, base locked and end free: after a solver call of any
\* number >= 1 of passes the live length is the rest length, whatever the position
\* of the free joint, the base's included (both solvers).
C7_TwoJointChain ==
    [][ (/\ nops' # nops
         /\ call'.op \in {"solve_constraints", "App_solve_constraints"}
         /\ call'.iterations >= 1
         /\ Len(points) = 2 /\ Len(links) = 1 /\ OneLocked(points, links[1]))
            => Live(points', links[1]) = links[1].rest ]_vars

\* C8: the IK call returns TRUE exactly when the end-effector is within tolerance
\* of the target on return.
C8_ReturnReportsReached ==
    IsFabrikCall(call)
        => (call.ret <=> Dist(PosOf(points[Last(call.chain)]), call.target) <= call.tolerance)

\* C9: an IK call leaves the distance between every two consecutive chain joints
\* as it was when the call started.
C9_SegmentLengthsKept ==
    [][ (nops' # nops /\ IsFabrikCall(call'))
            => \A i \in 1..(Len(call'.chain) - 1) :
                  Dist(PosOf(points'[call'.chain[i]]), PosOf(points'[call'.chain[i + 1]]))
                    = Dist(PosOf(points[call'.chain[i]]), PosOf(points[call'.chain[i + 1]])) ]_vars

\* the target is farther from the base than the chain is long
Unreachable(pts, chain, target) ==
    Dist(chain_pos(pts, chain)[1], target) > SumSeq(chain_dists(chain_pos(pts, chain)), 1)

NonBaseFree(pts, chain) == \A i \in 2..Len(chain) : ~pts[chain[i]].locked

\* after: joint i of the chain lies on the ray from the base to the target at the
\* summed length of the segments before it, each segment as long as before
Stretched(pts, after, chain, target) ==
    LET pos  == chain_pos(pts, chain)
        pos2 == chain_pos(after, chain)
        d    == chain_dists(pos)
        r    == Dist(pos[1], target)
    IN  /\ \A i \in 1..Len(chain) :
              /\ (pos2[i][1] - pos[1][1]) * r = PrefixSum(d, i - 1) * (target[1] - pos[1][1])
              /\ (pos2[i][2] - pos[1][2]) * r = PrefixSum(d, i - 1) * (target[2] - pos[1][2])
        /\ \A i \in 1..(Len(chain) - 1) : Dist(pos2[i], pos2[i + 1]) = d[i]
        /\ Dist(pos2[1], pos2[Len(chain)]) = SumSeq(d, 1)

\* C10: an IK call whose target is out of reach, on a chain whose non-base joints
\* are free, runs no reaching iteration (the result is that of a call with no
\* iteration budget) and leaves the chain straight on the ray from the base to the
\* target, every segment at its length, the end-effector at the chain's length.
C10_UnreachableStretch ==
    [][ (/\ nops' # nops /\ IsFabrikCall(call')
         /\ Unreachable(points, call'.chain, call'.target)
         /\ NonBaseFree(points, call'.chain))
            => /\ Stretched(points, points', call'.chain, call'.target)
               /\ points' = fabrik_chain_positions(points, call'.chain, call'.target,
                                                   call'.tolerance, 0) ]_vars

\* a chain of three joints with two segments of non-zero length lies stretched
\* toward a target it cannot reach
C10_Witness ==
    /\ IsFabrikCall(call) /\ Len(call.chain) = 3
    /\ NonBaseFree(points, call.chain)
    /\ Unreachable(points, call.chain, call.target)
    /\ \A i \in 1..2 : chain_dists(chain_pos(points, call.chain))[i] > 0
    /\ Stretched(points, points, call.chain, call.target)

\* C22: an IK call on a simple chain leaves the chain's first joint, locked or
\* free, where it was, in the stretch branch and in the iterative branch.
C22_BaseStays ==
    [][ (nops' # nops /\ IsFabrikCall(call'))
            => PosOf(points'[call'.chain[1]]) = PosOf(points[call'.chain[1]]) ]_vars

\* an IK call on a chain of three joints with a free base has run at least one
\* pass of the iterative branch, towards a target in reach that is on none of
\* the joints, so that the forward pass displaced the base before it was put back
C22_Witness ==
    /\ IsFabrikCall(call) /\ Len(call.chain) = 3
    /\ ~call.before[call.chain[1]].locked
    /\ ~Unreachable(call.before, call.chain, call.target)
    /\ call.iterations >= 1
    /\ \A i \in 1..3 : PosOf(call.before[call.chain[i]]) # call.target
    /\ Dist(PosOf(call.before[call.chain[3]]), call.target) > call.tolerance
    /\ PosOf(points[call.chain[1]]) = PosOf(call.before[call.chain[1]])

\* C20: an IK call on a chain of fewer than two joints returns FALSE and leaves
\* every joint where it was, for every target, tolerance and iteration budget.
C20_ShortChainNoOp ==
    [][ (nops' # nops /\ call'.op = "fabrik_chain_positions"
                     /\ Len(call'.chain) < 2)
            => (call'.ret = FALSE /\ points' = points) ]_vars

\* the IK solver was called on the one-joint chain of a free joint that is not
\* on the target
C20_Witness ==
    /\ call.op = "fabrik_chain_positions" /\ Len(call.chain) = 1
    /\ ~points[call.chain[1]].locked
    /\ PosOf(points[call.chain[1]]) # call.target
    /\ call.iterations > 0
    /\ call.ret = FALSE

(***************************************************************************)
(* The frame stepper on its own: frames of tick_once and of LinkageApp.tick *)
(* stepped phase by phase (SpecFrame).  pc names the phase the running     *)
(* frame executes next.  The editor never selects two joints, so it never  *)
(* prepares an IK chain: sessions with a chain are drawn, to step the IK   *)
(* block of tick_once as well.                                             *)
(***************************************************************************)
FrameCoords == {8, 10}
FrameSpeeds == {1800, -1800}
FrameIters == {1, 16}
FrameChains == {<<>>, <<2, 3>>, <<1, 2, 3>>}
FrameTargets == {NoTarget, <<0, 12>>}
\* 0.05 s, the longest dt that tick() passes
FrameDts == {1}

\* a crank: joint 1 grounded at the origin, joint 2 a motor at (4, 0), joint 3
\* free at (jx, 0), linked 1-2 and 2-3 as add_point links them
FrameModel(jx, speed, anchor) ==
    /\ points = << [Point(0, 0) EXCEPT !.locked = TRUE],
                   [Point(4, 0) EXCEPT !.is_motor = TRUE,
                                       !.motor_rps = speed,
                                       !.motor_anchor = anchor],
                   Point(jx, 0) >>
    /\ links = << Link(1, 2, 4), Link(2, 3, jx - 4) >>

InitFrame ==
    /\ program \in Programs
    /\ mode = "add" /\ connect_sel = <<>> /\ temp_link = <<>>
    /\ trace_points = <<>>
    /\ pc = "idle" /\ call = NoCall /\ nops = 0
    /\ \E jx \in FrameCoords, speed \in FrameSpeeds :
          /\ motor_speed = speed
          /\ IF program = "LinkageStudioPlus"
             THEN /\ \E anchor \in {None, 1} : FrameModel(jx, speed, anchor)
                  /\ playing \in BOOLEAN
                  /\ trace_enabled \in BOOLEAN
                  /\ solver_iters \in FrameIters
                  /\ ik_active \in BOOLEAN
                  /\ ik_chain \in FrameChains
                  /\ ik_target \in FrameTargets
             ELSE /\ FrameModel(jx, speed, 1)
                  /\ playing = TRUE
                  /\ trace_enabled = TRUE
                  /\ solver_iters = App_solver_iters
                  /\ ik_active = FALSE /\ ik_chain = <<>> /\ ik_target = NoTarget

FrameUnchanged ==
    UNCHANGED <<program, links, mode, connect_sel, temp_link, ik_active, ik_chain,
                ik_target, trace_enabled, solver_iters, motor_speed, playing>>

\* tick_once(dt), "# motors": self.apply_motors(dt)
TickMotors(dt) ==
    /\ program = "LinkageStudioPlus"
    /\ pc = "idle" /\ nops < MaxOps
    /\ points' = apply_motors(points, motor_speed, dt)
    /\ call' = [NoCall EXCEPT !.op = "tick_once", !.before = points, !.dt = dt]
    /\ pc' = "constraints"
    /\ UNCHANGED <<trace_points, nops>>
    /\ FrameUnchanged

\* tick_once, "# constraints": self.solve_constraints()
TickSolve ==
    /\ program = "LinkageStudioPlus"
    /\ pc = "constraints"
    /\ points' = solve_constraints(points, links, solver_iters)
    /\ pc' = "ik"
    /\ UNCHANGED <<trace_points, call, nops>>
    /\ FrameUnchanged

\* tick_once, "# IK"
TickIk ==
    /\ program = "LinkageStudioPlus"
    /\ pc = "ik"
    /\ points' = tick_once_ik(points, links, ik_active, ik_chain, ik_target)
    /\ pc' = "trace"
    /\ UNCHANGED <<trace_points, call, nops>>
    /\ FrameUnchanged

\* tick_once, "# trace"
TickTrace ==
    /\ program = "LinkageStudioPlus"
    /\ pc = "trace"
    /\ trace_points' = tick_once_trace(points, links, trace_points, trace_enabled)
    /\ pc' = "idle"
    /\ nops' = nops + 1
    /\ UNCHANGED <<points, call>>
    /\ FrameUnchanged

\* LinkageApp.tick, "if self.playing": self.apply_motors(dt)
App_TickMotors(dt) ==
    /\ program = "LinkageApp"
    /\ pc = "idle" /\ nops < MaxOps
    /\ playing
    /\ points' = App_apply_motors(points, dt)
    /\ call' = [NoCall EXCEPT !.op = "tick", !.before = points, !.dt = dt]
    /\ pc' = "constraints"
    /\ UNCHANGED <<trace_points, nops>>
    /\ FrameUnchanged

\* LinkageApp.tick: self.solve_constraints()
App_TickSolve ==
    /\ program = "LinkageApp"
    /\ pc = "constraints"
    /\ points' = App_solve_constraints(points, links, App_solver_iters)
    /\ pc' = "trace"
    /\ UNCHANGED <<trace_points, call, nops>>
    /\ FrameUnchanged

\* LinkageApp.tick: self.trace.append(self.get_mid_link())
App_TickTrace ==
    /\ program = "LinkageApp"
    /\ pc = "trace"
    /\ trace_points' = Append(trace_points, get_mid_link(points, links))
    /\ pc' = "idle"
    /\ nops' = nops + 1
    /\ UNCHANGED <<points, call>>
    /\ FrameUnchanged

NextFrame ==
    \/ \E dt \in FrameDts : TickMotors(dt)
    \/ TickSolve
    \/ TickIk
    \/ TickTrace
    \/ \E dt \in FrameDts : App_TickMotors(dt)
    \/ App_TickSolve
    \/ App_TickTrace

SpecFrame == InitFrame /\ [][NextFrame]_vars

(***************************************************************************)
(* Properties of the frame stepper                                         *)
(***************************************************************************)
\* an IK session is active with a chain and a target
IkSession == ik_active /\ ik_chain # <<>> /\ ik_target # NoTarget

\* the joints a frame of tick_once leaves, by the order of phases of the
\* specification: motors, solver, IK and settle pass when a session is active
FrameResult(before, dt) ==
    LET moved  == apply_motors(before, motor_speed, dt)
        solved == solve_constraints(moved, links, solver_iters)
    IN  IF IkSession
        THEN solve_constraints(
                 fabrik_chain_positions(solved, ik_chain, ik_target,
                                        tick_ik_tolerance, tick_ik_max_iters),
                 links, tick_settle_iterations)
        ELSE solved

\* the same for LinkageApp.tick, which has no IK phase
App_FrameResult(before, dt) ==
    App_solve_constraints(App_apply_motors(before, dt), links, App_solver_iters)

EditClicks == {<<0, 0>>, <<48, 0>>, <<0, 64>>}

\* the values of the mode radio buttons
Modes ==
    IF program = "LinkageStudioPlus"
    THEN {"add", "connect", "select", "motor", "ik_target"}
    ELSE {"add", "connect", "select", "motor"}

InitEdit ==
    /\ SessionDefaults
    /\ program \in Programs
    /\ points = <<>>
    /\ links = <<>>

\* a mode radio button
SetMode(m) ==
    /\ nops < MaxEditOps
    /\ m # mode
    /\ mode' = m
    /\ call' = [NoCall EXCEPT !.op = "mode"]
    /\ nops' = nops + 1
    /\ UNCHANGED <<program, points, links, trace_points, connect_sel, temp_link,
                   ik_active, ik_chain, ik_target, trace_enabled, solver_iters,
                   motor_speed, playing, pc>>

\* LinkageStudioPlus.on_left_click at (x, y)
LeftClick(x, y) ==
    /\ program = "LinkageStudioPlus"
    /\ nops < MaxEditOps
    /\ LET s   == snap_all(points, x, y)
           idx == find_point_near(points, s[1], s[2])
       IN  IF mode = "add"
           THEN /\ points' = add_point(points, links, mode, s[1], s[2])[1]
                /\ links' = add_point(points, links, mode, s[1], s[2])[2]
                /\ UNCHANGED <<connect_sel, ik_target>>
           ELSE IF mode = "connect"
           THEN /\ IF idx = None
                   THEN UNCHANGED <<links, connect_sel>>
                   ELSE LET sel == IF \E i \in 1..Len(connect_sel) : connect_sel[i] = idx
                                   THEN connect_sel
                                   ELSE Append(connect_sel, idx)
                        IN  IF Len(sel) # 2
                            THEN connect_sel' = sel /\ links' = links
                            ELSE IF create_link_raises(points, links, sel[1], sel[2])
                            THEN connect_sel' = sel /\ links' = links
                            ELSE /\ links' = create_link(points, links, sel[1], sel[2])
                                 /\ connect_sel' = <<>>
                /\ UNCHANGED <<points, ik_target>>
           ELSE IF mode = "select"
           THEN /\ points' = select_point(points, idx)
                /\ UNCHANGED <<links, connect_sel, ik_target>>
           ELSE IF mode = "motor"
           THEN /\ points' = IF idx = None THEN points
                             ELSE toggle_motor(points, idx, motor_speed)
                /\ UNCHANGED <<links, connect_sel, ik_target>>
           ELSE /\ ik_target' = s
                /\ points' = IF ik_chain # <<>>
                             THEN fabrik_chain_positions(points, ik_chain, s,
                                      tick_ik_tolerance, click_ik_max_iters)
                             ELSE points
                /\ UNCHANGED <<links, connect_sel>>
    /\ call' = [NoCall EXCEPT !.op = "on_left_click", !.target = <<x, y>>]
    /\ nops' = nops + 1
    /\ UNCHANGED <<program, trace_points, mode, temp_link, ik_active, ik_chain,
                   trace_enabled, solver_iters, motor_speed, playing, pc>>

\* LinkageApp.left_click at (x, y)
App_LeftClick(x, y) ==
    /\ program = "LinkageApp"
    /\ nops < MaxEditOps
    /\ LET idx == App_find_point(points, x, y)
       IN  IF mode = "add"
           THEN /\ points' = App_add_point(points, links, x, y)[1]
                /\ links' = App_add_point(points, links, x, y)[2]
                /\ UNCHANGED temp_link
           ELSE IF mode = "select"
           THEN /\ points' = select_point(points, idx)
                /\ UNCHANGED <<links, temp_link>>
           ELSE IF mode = "connect"
           THEN /\ IF idx = None
                   THEN UNCHANGED <<links, temp_link>>
                   ELSE LET tl == Append(temp_link, idx)
                        IN  IF Len(tl) # 2
                            THEN temp_link' = tl /\ links' = links
                            ELSE IF App_add_link_raises(points, tl[1], tl[2])
                            THEN temp_link' = tl /\ links' = links
                            ELSE /\ links' = App_add_link(points, links, tl[1], tl[2])
                                 /\ temp_link' = <<>>
                /\ UNCHANGED points
           ELSE /\ points' = IF idx = None THEN points
                             ELSE App_toggle_motor(points, idx, motor_speed)
                /\ UNCHANGED <<links, temp_link>>
    /\ call' = [NoCall EXCEPT !.op = "left_click", !.target = <<x, y>>]
    /\ nops' = nops + 1
    /\ UNCHANGED <<program, trace_points, mode, connect_sel, ik_active, ik_chain,
                   ik_target, trace_enabled, solver_iters, motor_speed, playing, pc>>

\* LinkageStudioPlus.clear_all
ClearAll ==
    /\ program = "LinkageStudioPlus"
    /\ nops < MaxEditOps
    /\ points' = <<>> /\ links' = <<>> /\ trace_points' = <<>>
    /\ ik_chain' = <<>> /\ ik_target' = NoTarget
    /\ playing' = FALSE
    /\ call' = [NoCall EXCEPT !.op = "clear_all"]
    /\ nops' = nops + 1
    /\ UNCHANGED <<program, mode, connect_sel, temp_link, ik_active, trace_enabled,
                   solver_iters, motor_speed, pc>>

\* LinkageApp.clear
App_Clear ==
    /\ program = "LinkageApp"
    /\ nops < MaxEditOps
    /\ points' = <<>> /\ links' = <<>> /\ trace_points' = <<>>
    /\ call' = [NoCall EXCEPT !.op = "clear"]
    /\ nops' = nops + 1
    /\ UNCHANGED <<program, mode, connect_sel, temp_link, ik_active, ik_chain,
                   ik_target, trace_enabled, solver_iters, motor_speed, playing, pc>>

NextEdit ==
    \/ \E m \in Modes : SetMode(m)
    \/ \E c \in EditClicks : LeftClick(c[1], c[2])
    \/ \E c \in EditClicks : App_LeftClick(c[1], c[2])
    \/ ClearAll
    \/ App_Clear

SpecEdit == InitEdit /\ [][NextEdit]_vars

(***************************************************************************)
(* Properties of the editor                                                *)
(***************************************************************************)
\* C3: whatever joints and links were created, by connect clicks and by the
\* automatic link of an added joint, no link joins a joint to itself and no two
\* links join the same unordered pair of joints.
C3_NoSelfNoDuplicateLinks ==
    /\ \A k \in 1..Len(links) : links[k].a # links[k].b
    /\ \A j \in 1..Len(links), k \in 1..Len(links) :
          {links[j].a, links[j].b} = {links[k].a, links[k].b} => j = k

(***************************************************************************)
(* Four-bar synthesis on its own: Generate 4-Bar and Update 4-Bar pressed  *)
(* on an empty session or on a model built by hand (SpecFourBar).  The     *)
(* sliders are read when a button is pressed: their values are the inputs  *)
(* of the two actions.                                                     *)
(***************************************************************************)
\* slider lengths <<a, b, c, d>> in pixels: a crank-rocker with C at (60, 80)
\* from B, a non-Grashof set that nudging cannot repair, four equal lengths,
\* a set that nudging repairs, a set with d < a, and circles that do not meet
FourBarInputs ==
    { <<40, 100, 100, 160>>, <<80, 50, 50, 140>>, <<80, 80, 80, 80>>,
      <<240, 100, 100, 100>>, <<140, 50, 50, 80>>, <<80, 24, 24, 180>> }
\* fb_rpm
FourBarRpms == {90, 1800}

\* models built by hand with add and connect clicks
HandSquare ==
    [points |-> <<Point(0, 0), Point(48, 0), Point(48, 64), Point(0, 64)>>,
     links  |-> <<Link(1, 2, 48), Link(2, 3, 64), Link(3, 4, 48), Link(4, 1, 64)>>,
     trace  |-> <<<<24, 0>>>>]
HandChain ==
    [points |-> <<Point(0, 0), Point(48, 0),
                  [Point(96, 0) EXCEPT !.is_motor = TRUE, !.motor_rps = 90],
                  Point(144, 0), Point(192, 0)>>,
     links  |-> <<Link(1, 2, 48), Link(2, 3, 48), Link(3, 4, 48), Link(4, 5, 48)>>,
     trace  |-> <<>>]
HandPair ==
    [points |-> <<Point(0, 0), Point(48, 0)>>,
     links  |-> <<Link(1, 2, 48)>>,
     trace  |-> <<>>]
EmptyModel == [points |-> <<>>, links |-> <<>>, trace |-> <<>>]

InitFourBar ==
    /\ program = "LinkageStudioPlus"
    /\ mode = "add" /\ connect_sel = <<>> /\ temp_link = <<>>
    /\ ik_active = FALSE /\ ik_chain = <<>> /\ ik_target = NoTarget
    /\ trace_enabled = TRUE /\ solver_iters = 16 /\ motor_speed = 90
    /\ playing = FALSE /\ pc = "idle" /\ call = NoCall /\ nops = 0
    /\ \E m \in {EmptyModel, HandPair, HandSquare, HandChain} :
          /\ points = m.points
          /\ links = m.links
          /\ trace_points = m.trace

FourBarUnchanged ==
    UNCHANGED <<program, mode, connect_sel, temp_link, ik_active, ik_chain,
                ik_target, trace_enabled, solver_iters, motor_speed, playing, pc>>

\* the Generate 4-Bar button: generate_4bar_from_sliders
Generate4Bar(in, grashof, rpm) ==
    /\ nops < MaxFourBarOps
    /\ LET g == generate_4bar_from_sliders(in[1], in[2], in[3], in[4], grashof, rpm)
       IN  points' = g[1] /\ links' = g[2]
    /\ trace_points' = <<>>
    /\ call' = [NoCall EXCEPT
                   !.op = "generate_4bar_from_sliders",
                   !.before = points, !.lengths = in, !.grashof = grashof,
                   !.attempts = IF grashof
                                THEN grashof_nudge(in[1], in[2], in[3], in[4], 0)[3]
                                ELSE 0]
    /\ nops' = nops + 1
    /\ FourBarUnchanged

\* the Update 4-Bar button: update_4bar_from_sliders
Update4Bar(in, rpm) ==
    /\ nops < MaxFourBarOps
    /\ LET u == update_4bar_from_sliders(points, links, in[1], in[2], in[3], in[4], rpm)
       IN  points' = u[1] /\ links' = u[2]
    /\ call' = [NoCall EXCEPT !.op = "update_4bar_from_sliders",
                              !.before = points, !.lengths = in]
    /\ nops' = nops + 1
    /\ UNCHANGED trace_points
    /\ FourBarUnchanged

NextFourBar ==
    \/ \E in \in FourBarInputs, grashof \in BOOLEAN, rpm \in FourBarRpms :
          Generate4Bar(in, grashof, rpm)
    \/ \E in \in FourBarInputs, rpm \in FourBarRpms : Update4Bar(in, rpm)

SpecFourBar == InitFourBar /\ [][NextFourBar]_vars

(***************************************************************************)
(* Properties of four-bar synthesis                                        *)
(***************************************************************************)
Generated == call.op = "generate_4bar_from_sliders"

\* four joints and the four links 1-2, 2-3, 3-4, 4-1, joints 1 and 4 grounded,
\* joint 2 the only motor, anchored at joint 1
FourBarShape(pts, lks) ==
    /\ Len(pts) >= 4 /\ Len(lks) >= 4
    /\ \A k \in 1..4 : lks[k].a = k /\ lks[k].b = (k % 4) + 1
    /\ pts[1].locked /\ pts[4].locked /\ ~pts[2].locked /\ ~pts[3].locked
    /\ \A i \in 1..4 : pts[i].is_motor <=> i = 2
    /\ pts[2].motor_anchor = 1

\* C11: right after generate_4bar the model is four joints and the four links
\* 0-1, 1-2, 2-3, 3-0 (here 1-2, 2-3, 3-4, 4-1), joints 0 and 3 locked, 1 and 2
\* free, joint 1 the only motor, anchored at joint 0 with the angle of its
\* offset from joint 0 (it lies to the right of it: angle 0), and the trace is
\* empty, whatever the lengths, the Grashof flag and the model before.
C11_GeneratedModel ==
    Generated
        => /\ Len(points) = 4 /\ Len(links) = 4
           /\ FourBarShape(points, links)
           /\ points[2].y = points[1].y /\ points[2].x > points[1].x
           /\ points[2].motor_angle = 0
           /\ trace_points = <<>>

\* generate_4bar has replaced a model of five joints, one of them a motor, with
\* nudged lengths
C11_Witness ==
    /\ Generated /\ Len(call.before) = 5 /\ call.attempts > 0
    /\ FourBarShape(points, links)
    /\ \A k \in 1..4 : links[k].rest > 0

AllEqual(in) == in[1] = in[2] /\ in[2] = in[3] /\ in[3] = in[4]

\* C12: with a = b = c = d the Grashof test passes without a nudge and the
\* synthesis leaves a closed loop: each of the four links has live length and
\* rest length equal to the common slider length (in pixels).
C12_EqualLengthsClosed ==
    (Generated /\ AllEqual(call.lengths))
        => /\ call.attempts = 0
           /\ \A k \in 1..Len(links) :
                 /\ links[k].rest = call.lengths[1]
                 /\ Live(points, links[k]) = call.lengths[1]

\* the lengths a and d the synthesis has used, read back from the ground joints
UsedA == points[2].x - points[1].x
UsedD == points[4].x - points[1].x

\* C13: the nudging loop makes at most 20 passes and the synthesis completes
\* with a four-joint, four-link model for every drawn set of positive lengths;
\* with enforcement off no pass is made and a and d are used as read; with it
\* on, no pass is made on lengths that satisfy the inequality, and fewer than
\* 20 passes end on lengths that satisfy it.
C13_NudgeBounded ==
    Generated
        => /\ call.attempts <= 20
           /\ Len(points) = 4 /\ Len(links) = 4
           /\ ~call.grashof
                 => /\ call.attempts = 0
                    /\ UsedA = call.lengths[1] /\ UsedD = call.lengths[4]
           /\ call.grashof
                 => /\ (call.attempts = 0) <=>
                          grashof_ok(call.lengths[1], call.lengths[2],
                                     call.lengths[3], call.lengths[4])
                    /\ call.attempts = 0
                          => UsedA = call.lengths[1] /\ UsedD = call.lengths[4]
                    /\ call.attempts < 20
                          => grashof_ok(UsedA, call.lengths[2], call.lengths[3], UsedD)

\* the loop has given up after 20 passes on lengths that still fail the
\* inequality, and the four-bar was built from them
C13_Witness ==
    /\ Generated /\ call.grashof /\ call.attempts = 20
    /\ Len(points) = 4 /\ Len(links) = 4
    /\ UsedA < call.lengths[1] /\ UsedD > call.lengths[4]
    /\ ~grashof_ok(UsedA, call.lengths[2], call.lengths[3], UsedD)

\* C14: update_4bar changes neither a joint nor a link unless the first four
\* joints and links are the intact output of generate_4bar; a hand-built model
\* of four or more joints and links is left as it is.
C14_UpdateOnlyGenerated ==
    [][ (call'.op = "update_4bar_from_sliders" /\ ~FourBarShape(points, links))
            => (points' = points /\ links' = links) ]_vars

\* C23: in every state that generate_4bar and later update_4bar calls leave,
\* the ground link between the locked joints 0 and 3 (here 1 and 4, the fourth
\* link) has live length equal to its rest length.
C23_GroundLinkAtRest ==
    (call.op \in {"generate_4bar_from_sliders", "update_4bar_from_sliders"}
        /\ FourBarShape(points, links))
        => Live(points, links[4]) = links[4].rest

(***************************************************************************)
(* Running sessions: consecutive frames of tick_once and of                *)
(* LinkageApp.tick on models left by editing or by load_json, the Motor    *)
(* speed spin box, and the motor click of LinkageApp (SpecRun).  A frame   *)
(* is stepped phase by phase as in SpecFrame; pc = "stopped" says that the *)
(* tick callback of LinkageApp raised and was not scheduled again.         *)
(***************************************************************************)
RunDts == {1}
\* motor speeds of one and of two quarter turns per 0.05 s
RunRates == {1800, 3600}
\* where the motor clicks land: on joint 2 and on joint 1 of the crank
RunClicks == {<<48, 64>>, <<0, 64>>}
RunTarget == <<0, 0>>

\* a history of n samples, all different
FullTrace(n) == [k \in 1..n |-> <<k, 0>>]

\* joint 1 grounded at (0, 64), joint 2 at (48, 64), 80 from the world origin,
\* joint 3 at (48, 0), linked 1-2 and 2-3 as add_point links them
RunCrank(locked2) ==
    << [Point(0, 64) EXCEPT !.locked = TRUE],
       [Point(48, 64) EXCEPT !.locked = locked2],
       Point(48, 0) >>
RunLinks == << Link(1, 2, 48), Link(2, 3, 64) >>

Motorized(pts, i, rate, anchor) ==
    [pts EXCEPT ![i].is_motor = TRUE, ![i].motor_rps = rate,
                ![i].motor_anchor = anchor]

\* models of LinkageStudioPlus: empty, joints without links, the crank with
\* joint 2 a motor whose anchor is unset, joint 1, or a joint that does not
\* exist, and the crank with two motors of different rates
RunModels ==
    { [points |-> <<>>, links |-> <<>>],
      [points |-> <<Point(0, 64)>>, links |-> <<>>],
      [points |-> <<Point(0, 64), Point(48, 64)>>, links |-> <<>>],
      [points |-> Motorized(Motorized(RunCrank(FALSE), 2, 1800, 1), 3, 3600, 1),
       links |-> RunLinks] }
    \cup { [points |-> Motorized(RunCrank(locked2), 2, rate, anchor),
            links |-> RunLinks] :
              locked2 \in BOOLEAN, rate \in RunRates, anchor \in {None, 1, 7} }

\* models of LinkageApp before any motor click
App_RunModels ==
    { [points |-> <<>>, links |-> <<>>],
      [points |-> <<Point(0, 64)>>, links |-> <<>>],
      [points |-> RunCrank(FALSE), links |-> RunLinks],
      [points |-> RunCrank(TRUE), links |-> RunLinks] }

InitRun ==
    /\ program \in Programs
    /\ connect_sel = <<>> /\ temp_link = <<>>
    /\ pc = "idle" /\ call = NoCall /\ nops = 0
    /\ motor_speed = 1800
    /\ IF program = "LinkageStudioPlus"
       THEN /\ mode = "select" /\ playing = FALSE /\ solver_iters = 16
            /\ \/ /\ \E m \in RunModels : points = m.points /\ links = m.links
                  /\ trace_points = <<>>
                  /\ trace_enabled \in BOOLEAN
                  /\ \/ ik_active = FALSE /\ ik_chain = <<>> /\ ik_target = NoTarget
                     \/ /\ Len(points) = 3
                        /\ ik_active = TRUE /\ ik_chain = <<2, 3>>
                        /\ ik_target = RunTarget
               \/ /\ points = Motorized(RunCrank(FALSE), 2, 1800, 1)
                  /\ links = RunLinks
                  /\ trace_points \in {FullTrace(TraceCap - 1), FullTrace(TraceCap)}
                  /\ trace_enabled = TRUE
                  /\ ik_active = FALSE /\ ik_chain = <<>> /\ ik_target = NoTarget
       ELSE /\ mode = "motor" /\ playing = TRUE /\ solver_iters = App_solver_iters
            /\ trace_enabled = TRUE
            /\ ik_active = FALSE /\ ik_chain = <<>> /\ ik_target = NoTarget
            /\ \/ /\ \E m \in App_RunModels : points = m.points /\ links = m.links
                  /\ trace_points = <<>>
               \/ /\ points = RunCrank(FALSE) /\ links = RunLinks
                  /\ trace_points = FullTrace(TraceCap)

\* tick_once(dt), "# motors"
RunMotors(dt) ==
    /\ program = "LinkageStudioPlus"
    /\ pc = "idle" /\ nops < MaxRunOps
    /\ points' = apply_motors(points, motor_speed, dt)
    /\ call' = [NoCall EXCEPT !.op = "tick_once", !.before = points, !.dt = dt]
    /\ pc' = "constraints"
    /\ UNCHANGED <<trace_points, nops>>
    /\ FrameUnchanged

\* LinkageApp.tick, "if self.playing": self.apply_motors(dt); an exception
\* leaves tick before "self.root.after(16, self.tick)"
App_RunMotors(dt) ==
    /\ program = "LinkageApp"
    /\ pc = "idle" /\ nops < MaxRunOps
    /\ playing
    /\ points' = App_apply_motors(points, dt)
    /\ call' = [NoCall EXCEPT !.op = "tick", !.before = points, !.dt = dt,
                              !.raised = App_apply_motors_raises(points)]
    /\ IF App_apply_motors_raises(points)
       THEN pc' = "stopped" /\ nops' = nops + 1
       ELSE pc' = "constraints" /\ nops' = nops
    /\ UNCHANGED trace_points
    /\ FrameUnchanged

\* LinkageApp.tick: self.trace.append(self.get_mid_link()), then self.redraw()
App_RunTrace ==
    /\ program = "LinkageApp"
    /\ pc = "trace"
    /\ trace_points' = Append(trace_points, get_mid_link(points, links))
    /\ call' = [call EXCEPT !.raised = App_redraw_raises(trace_points')]
    /\ pc' = IF App_redraw_raises(trace_points') THEN "stopped" ELSE "idle"
    /\ nops' = nops + 1
    /\ UNCHANGED points
    /\ FrameUnchanged

\* a left click of LinkageApp between two frames
RunClick(c) ==
    /\ pc \in {"idle", "stopped"}
    /\ nops < MaxRunOps
    /\ App_LeftClick(c[1], c[2])

\* the Motor speed spin box (LinkageStudioPlus motor_speed, LinkageApp motor_rpm)
SetMotorSpeed(v) ==
    /\ pc \in {"idle", "stopped"}
    /\ nops < MaxRunOps
    /\ v # motor_speed
    /\ motor_speed' = v
    /\ call' = [NoCall EXCEPT !.op = "motor_speed"]
    /\ nops' = nops + 1
    /\ UNCHANGED <<program, points, links, trace_points, mode, connect_sel,
                   temp_link, ik_active, ik_chain, ik_target, trace_enabled,
                   solver_iters, playing, pc>>

NextRun ==
    \/ \E dt \in RunDts : RunMotors(dt)
    \/ TickSolve
    \/ TickIk
    \/ TickTrace
    \/ \E dt \in RunDts : App_RunMotors(dt)
    \/ App_TickSolve
    \/ App_RunTrace
    \/ \E c \in RunClicks : RunClick(c)
    \/ \E v \in RunRates : SetMotorSpeed(v)

SpecRun == InitRun /\ [][NextRun]_vars

(***************************************************************************)
(* Properties of running sessions                                          *)
(***************************************************************************)
\* a step that runs the motor phase of a frame
MotorStep == pc = "idle" /\ pc' # "idle"
\* a step that runs any phase of a frame
FramePhase == pc' # pc

\* the anchor position by the rule of the specification
AnchorOf(pts, p) ==
    IF p.motor_anchor \in 1..Len(pts) THEN PosOf(pts[p.motor_anchor])
    ELSE <<0, 0>>

\* C15: the motor step never raises, and it puts every motor joint on the
\* circle around its anchor, the radius being its distance from the anchor
\* before the step and the direction its new angle, where the anchor is the
\* world origin when unset, the referenced joint's position when the index is
\* that of a joint, and the world origin when the index is that of no joint.
C15_AnchorResolved ==
    [][ MotorStep
          => /\ ~call'.raised
             /\ \A i \in 1..Len(points) :
                   points[i].is_motor
                     => LET anc == AnchorOf(points', points[i])
                            r   == hypot(points[i].x - anc[1], points[i].y - anc[2])
                            q   == points'[i].motor_angle
                        IN  /\ points'[i].x = anc[1] + r * Cos4(q)
                            /\ points'[i].y = anc[2] + r * Sin4(q)
                            /\ q # points[i].motor_angle ]_vars

\* the motor phase of tick_once has turned a motor whose anchor index is that
\* of no joint about the world origin, 80 away
C15_Witness ==
    /\ program = "LinkageStudioPlus" /\ pc = "constraints" /\ call.op = "tick_once"
    /\ \E i \in 1..Len(points) :
          /\ call.before[i].is_motor
          /\ call.before[i].motor_anchor > Len(points)
          /\ PosOf(points[i]) # PosOf(call.before[i])
          /\ points[i].x * points[i].x + points[i].y * points[i].y = 80 * 80

\* C16: a motor step adds to the stored angle of every motor joint that
\* joint's own stored rate times 2*pi*dt (rate * dt / 1800 quarter turns, the
\* rate in degrees per second and dt in twentieths of a second) and leaves the
\* stored rate as it was.
C16_OwnStoredRate ==
    [][ MotorStep
          => \A i \in 1..Len(points) :
                points[i].is_motor
                  => /\ points'[i].motor_rps = points[i].motor_rps
                     /\ points'[i].motor_angle =
                            points[i].motor_angle
                              + (points[i].motor_rps * call'.dt) \div 1800 ]_vars

\* C17: the trace never holds more than 3000 samples, and a frame either
\* leaves it, or appends one sample to a history that is not full, or appends
\* one sample to a full history and drops exactly its first sample.
C17_TraceCapped ==
    [][ FramePhase
          => /\ Len(trace_points') <= 3000
             /\ \/ trace_points' = trace_points
                \/ /\ Len(trace_points) < 3000
                   /\ Len(trace_points') = Len(trace_points) + 1
                   /\ SubSeq(trace_points', 1, Len(trace_points)) = trace_points
                \/ /\ Len(trace_points) = 3000
                   /\ Len(trace_points') = 3000
                   /\ SubSeq(trace_points', 1, 2999) = Tail(trace_points) ]_vars

\* C18: a frame on a model without links never raises, leaves no null sample
\* in the trace, and leaves the joints as they are when none of them is a motor.
C18_NoLinksNoError ==
    [][ (FramePhase /\ links = <<>>)
          => /\ ~call'.raised
             /\ \A k \in 1..Len(trace_points') : trace_points'[k] # NoSample
             /\ (\A i \in 1..Len(points) : ~points[i].is_motor)
                   => points' = points ]_vars

\* C19: no phase of a frame moves a locked joint, a locked motor joint included.
C19_LockedImmovable ==
    [][ FramePhase
          => \A i \in 1..Len(points) :
                points[i].locked => PosOf(points'[i]) = PosOf(points[i]) ]_vars

(***************************************************************************)
(* The whole editor of LinkageStudioPlus: clicks, right press, the ground  *)
(* key, the motor, IK, four-bar, load and clear buttons, and frames        *)
(* (SpecStudio).  A handler runs between two frames, when pc = "idle".     *)
(***************************************************************************)
StudioClicks == {<<0, 64>>, <<48, 64>>}
StudioInputs == {<<40, 100, 100, 160>>}
\* the files Load JSON reads: load_json builds every Point anew
StudioFiles ==
    { [points |-> Motorized(RunCrank(FALSE), 2, 1800, 1), links |-> RunLinks],
      [points |-> <<Point(0, 64), Point(48, 64)>>, links |-> <<>>] }

InitStudio ==
    /\ program = "LinkageStudioPlus"
    /\ connect_sel = <<>> /\ temp_link = <<>>
    /\ trace_points = <<>> /\ trace_enabled = TRUE
    /\ solver_iters = 16 /\ motor_speed = 1800 /\ playing = FALSE
    /\ ik_active = FALSE /\ ik_chain = <<>>
    /\ pc = "idle" /\ call = NoCall /\ nops = 0
    /\ mode \in {"add", "select"}
    /\ ik_target \in {NoTarget, RunTarget}
    /\ \/ points = <<>> /\ links = <<>>
       \/ /\ links = RunLinks
          /\ \E idx \in {None, 1} : points = select_point(RunCrank(FALSE), idx)

Idle == program = "LinkageStudioPlus" /\ pc = "idle" /\ nops < MaxStudioOps

StudioUnchanged ==
    UNCHANGED <<program, mode, connect_sel, temp_link, trace_enabled,
                solver_iters, motor_speed, pc>>

StudioSetMode(m) == Idle /\ SetMode(m)
StudioLeftClick(c) == Idle /\ LeftClick(c[1], c[2])
StudioClearAll == Idle /\ ClearAll
StudioGenerate4Bar(in) == Idle /\ Generate4Bar(in, TRUE, 90)
StudioUpdate4Bar(in) == Idle /\ Update4Bar(in, 90)

\* on_right_press: the joint under the pointer, if any, becomes the selection
RightPress(c) ==
    /\ Idle
    /\ LET idx == find_point_near(points, c[1], c[2])
       IN  points' = IF idx # None THEN select_point(points, idx) ELSE points
    /\ call' = [NoCall EXCEPT !.op = "on_right_press", !.target = c]
    /\ nops' = nops + 1
    /\ UNCHANGED <<links, trace_points, ik_active, ik_chain, ik_target, playing>>
    /\ StudioUnchanged

\* the g key: lock_selected_as_ground
LockSelected ==
    /\ Idle
    /\ points' = lock_selected_as_ground(points)
    /\ call' = [NoCall EXCEPT !.op = "lock_selected_as_ground"]
    /\ nops' = nops + 1
    /\ UNCHANGED <<links, trace_points, ik_active, ik_chain, ik_target, playing>>
    /\ StudioUnchanged

\* the Toggle Motor on Selected button
ToggleMotorOnSelected ==
    /\ Idle
    /\ points' = toggle_motor_on_selected(points, motor_speed, 1)
    /\ call' = [NoCall EXCEPT !.op = "toggle_motor_on_selected"]
    /\ nops' = nops + 1
    /\ UNCHANGED <<links, trace_points, ik_active, ik_chain, ik_target, playing>>
    /\ StudioUnchanged

\* the Set IK Chain button: prepare_ik_chain
PrepareIkChain ==
    /\ Idle
    /\ ik_chain' = prepare_ik_chain(points, links, ik_chain)
    /\ call' = [NoCall EXCEPT !.op = "prepare_ik_chain"]
    /\ nops' = nops + 1
    /\ UNCHANGED <<points, links, trace_points, ik_active, ik_target, playing>>
    /\ StudioUnchanged

\* the Start IK button: start_ik returns at once when no chain is set
StartIk ==
    /\ Idle
    /\ IF ik_chain = <<>>
       THEN UNCHANGED <<ik_active, playing>>
       ELSE ik_active' = TRUE /\ playing' = FALSE
    /\ call' = [NoCall EXCEPT !.op = "start_ik"]
    /\ nops' = nops + 1
    /\ UNCHANGED <<points, links, trace_points, ik_chain, ik_target>>
    /\ StudioUnchanged

\* the Stop IK button
StopIk ==
    /\ Idle
    /\ ik_active' = FALSE
    /\ call' = [NoCall EXCEPT !.op = "stop_ik"]
    /\ nops' = nops + 1
    /\ UNCHANGED <<points, links, trace_points, ik_chain, ik_target, playing>>
    /\ StudioUnchanged

\* the Load JSON button on file m: ik_chain, ik_target and ik_active are kept
LoadJson(m) ==
    /\ Idle
    /\ points' = m.points /\ links' = m.links
    /\ trace_points' = <<>>
    /\ call' = [NoCall EXCEPT !.op = "load_json"]
    /\ nops' = nops + 1
    /\ UNCHANGED <<ik_active, ik_chain, ik_target, playing>>
    /\ StudioUnchanged

NextStudio ==
    \/ \E m \in Modes : StudioSetMode(m)
    \/ \E c \in StudioClicks : StudioLeftClick(c)
    \/ \E c \in StudioClicks : RightPress(c)
    \/ LockSelected
    \/ ToggleMotorOnSelected
    \/ PrepareIkChain
    \/ StartIk
    \/ StopIk
    \/ StudioClearAll
    \/ \E in \in StudioInputs : StudioGenerate4Bar(in)
    \/ \E in \in StudioInputs : StudioUpdate4Bar(in)
    \/ \E m \in StudioFiles : LoadJson(m)
    \/ \E dt \in RunDts : RunMotors(dt)
    \/ TickSolve
    \/ TickIk
    \/ TickTrace

SpecStudio == InitStudio /\ [][NextStudio]_vars

(***************************************************************************)
(* Properties of the whole editor                                          *)
(***************************************************************************)
SelectedJoints == {i \in 1..Len(points) : points[i].selected}

=============================================================================
